---- MODULE Spec2Model ----
(***************************************************************************)
(* The parking payment servers of the repository as one state machine.     *)
(*                                                                         *)
(* The repository holds three server programs:                             *)
(*   "index.js"  src/index.js          Razorpay server, current version    *)
(*   "part_001"  src/unnamed/part_001  Razorpay server, earlier versions   *)
(*                                     (two copies with identical          *)
(*                                     handlers, lines 1-171 and 173-388)  *)
(*   "part_000"  src/unnamed/part_000  Stripe server                       *)
(* A behaviour runs one of them: the process boots (Startup), and then     *)
(* serves requests. A request handler runs without interruption up to its  *)
(* response or up to its await of a gateway call; a handler suspended at   *)
(* its await sits in inflight until the call settles. The request that     *)
(* completed most recently, with the response it got, is kept in last.     *)
(* A request that a middleware refuses (the cors origin function, the JSON  *)
(* body parser) never reaches a route: it is answered by the error handler  *)
(* the program registers, or by the framework's own when it registers none. *)
(* Such a request is filed under the middleware that refused it, the route  *)
(* it was sent to being part of its input.                                  *)
(*                                                                         *)
(* JavaScript values are records tagged by t; finite numbers are held in   *)
(* thousandths (milli), so that 100.004 is Num(100004).                    *)
(***************************************************************************)
EXTENDS Integers, Sequences, FiniteSets, Bags

VARIABLES
  program,          \* which server file the process runs
  env,              \* the set of environment variables that are set
  proc,             \* "booting", "listening" or "exited"
  razorpay,         \* index.js / part_001: the Razorpay client (let razorpay)
  stripeClient,     \* part_000: the Stripe client
  PARKING_PRODUCTS, \* part_000: the product catalog object
  inflight,         \* the bag of requests suspended at their gateway call
  last              \* the most recently completed request and its response

vars == <<program, env, proc, razorpay, stripeClient, PARKING_PRODUCTS, inflight, last>>

\* The number of requests that may be suspended at a gateway call at once.
MaxInFlight == 2

-----------------------------------------------------------------------------
(* JavaScript values *)

Undef == [t |-> "undefined"]
Num(m) == [t |-> "number", milli |-> m]
Whole(n) == Num(n * 1000)
PosInf == [t |-> "Infinity"]
NegInf == [t |-> "-Infinity"]
NaN == [t |-> "NaN"]
Str(s) == [t |-> "string", s |-> s]
Obj(id) == [t |-> "object", id |-> id]
\* A function object found on Object.prototype (constructor, toString, ...).
Fn(name) == [t |-> "function", name |-> name]

\* ToBoolean, as applied by ! and ||.
Truthy(v) ==
  CASE v.t = "undefined" -> FALSE
    [] v.t = "NaN" -> FALSE
    [] v.t = "number" -> v.milli # 0
    [] v.t = "string" -> v.s # ""
    [] OTHER -> TRUE

\* Number(s) for the strings requests carry here.
StringToNumber(s) ==
  CASE s = "" -> Whole(0)
    [] OTHER -> NaN

\* ToNumber, as applied by isNaN, <, <=, >= and *.
ToNumber(v) ==
  CASE v.t \in {"number", "Infinity", "-Infinity", "NaN"} -> v
    [] v.t = "string" -> StringToNumber(v.s)
    [] OTHER -> NaN

isNaN(v) == ToNumber(v).t = "NaN"

\* a < b on the numbers ToNumber yields (false when either is NaN).
NumLess(x, y) ==
  CASE x.t = "NaN" \/ y.t = "NaN" -> FALSE
    [] x.t = "-Infinity" -> y.t # "-Infinity"
    [] x.t = "Infinity" -> FALSE
    [] y.t = "Infinity" -> TRUE
    [] y.t = "-Infinity" -> FALSE
    [] OTHER -> x.milli < y.milli

NumLessEq(x, y) ==
  CASE x.t = "NaN" \/ y.t = "NaN" -> FALSE
    [] OTHER -> x = y \/ NumLess(x, y)

Less(a, b) == NumLess(ToNumber(a), ToNumber(b))
LessEq(a, b) == NumLessEq(ToNumber(a), ToNumber(b))
GreaterEq(a, b) == NumLessEq(ToNumber(b), ToNumber(a))

\* amount * 100
Times100(v) ==
  LET x == ToNumber(v) IN
  IF x.t = "number" THEN Num(x.milli * 100) ELSE x

\* Math.round(x): the nearest integer, a tie going up. The product
\* amount * 100 is a binary floating-point number that may lie just off the
\* exact tie, so at a tie either neighbour is a possible result.
MathRound(x) ==
  IF x.t # "number" THEN {x}
  ELSE IF x.milli % 1000 = 500
       THEN {Num(x.milli - 500), Num(x.milli + 500)}
       ELSE {Num(1000 * ((x.milli + 500) \div 1000))}

IsInteger(v) == v.t = "number" /\ v.milli % 1000 = 0

-----------------------------------------------------------------------------
(* Requests and responses *)

NoReq == [route |-> "none"]
NoResponse == [status |-> 0]
NoPayload == [t |-> "none"]
NoOutcome == [t |-> "none"]

\* A request as its handler starts: no gateway call issued, no response sent.
\*   calls    the number of gateway calls the handler has issued
\*   payload  the argument of its gateway call
\*   gw       how the gateway call settled: "none", "resolved" or "rejected"
\*   outcome  what it settled with: the value it resolved with or the error
\*            it rejected with; for a request a middleware refused, the error
\*            the middleware passed to next()
\*   branch   the branch of the webhook's switch that ran ("none": not reached)
NewReq(route, input) ==
  [route |-> route, input |-> input, calls |-> 0, payload |-> NoPayload,
   gw |-> "none", outcome |-> NoOutcome, branch |-> "none",
   response |-> NoResponse]

\* A message: a string literal, or a template literal with its substitutions.
Msg(text) == [text |-> text, args |-> <<>>]
Template(text, args) == [text |-> text, args |-> args]

\* res.status(status).json(body); res.json(body) sends status 200.
Json(status, body) == [status |-> status, type |-> "json", body |-> body]
\* res.status(status).send(text)
Text(status, text) == [status |-> status, type |-> "text", body |-> text]
\* The error page the framework sends when the program registers no error
\* handler.
Html(status, text) == [status |-> status, type |-> "html", body |-> text]

\* The handler sends its response and returns.
Respond(req, response) ==
  /\ last' = [req EXCEPT !.response = response]
  /\ UNCHANGED <<program, env, proc, razorpay, stripeClient, PARKING_PRODUCTS, inflight>>

\* The handler awaits the gateway call it has issued.
Suspend(req) ==
  /\ BagCardinality(inflight) < MaxInFlight
  /\ inflight' = inflight (+) SetToBag({req})
  /\ UNCHANGED <<program, env, proc, razorpay, stripeClient, PARKING_PRODUCTS, last>>

\* The call a suspended request awaits has settled (settled: "resolved" or
\* "rejected") with outcome, and its handler runs to its response.
Resume(req, settled, outcome, response) ==
  /\ last' = [req EXCEPT !.gw = settled, !.outcome = outcome, !.response = response]
  /\ inflight' = inflight (-) SetToBag({req})
  /\ UNCHANGED <<program, env, proc, razorpay, stripeClient, PARKING_PRODUCTS>>

-----------------------------------------------------------------------------
(* Process start *)

Programs == {"index.js", "part_001", "part_000"}

\* "NODE_ENV=development" stands for NODE_ENV set to 'development'; without
\* it NODE_ENV is unset or names another mode (production).
EnvVars(p) ==
  CASE p = "part_000" -> {"STRIPE_SECRET_KEY"}
    [] p = "part_001" -> {"RAZORPAY_KEY_ID", "RAZORPAY_SECRET"}
    [] OTHER -> {"RAZORPAY_KEY_ID", "RAZORPAY_SECRET", "NODE_ENV=development"}

\* process.env.NODE_ENV === 'development'
Development == "NODE_ENV=development" \in env

NoClient == "undefined"

\* PARKING_PRODUCTS as defined: own keys '1', '2', '5', '10', '24'; prices in paise.
Product(name, price, hours) ==
  [t |-> "object", name |-> Str(name), price |-> Whole(price), hours |-> Whole(hours)]

Catalog ==
  [k \in {"1", "2", "5", "10", "24"} |->
    CASE k = "1" -> Product("1 Hour Parking", 1000, 1)
      [] k = "2" -> Product("2 Hour Parking", 2000, 2)
      [] k = "5" -> Product("5 Hour Parking", 4000, 5)
      [] k = "10" -> Product("10 Hour Parking", 9000, 10)
      [] k = "24" -> Product("24 Hour Parking", 19900, 24)]

NoCatalog == [k \in {} |-> Undef]

Init ==
  /\ program \in Programs
  /\ env \in SUBSET EnvVars(program)
  /\ proc = "booting"
  /\ razorpay = NoClient
  /\ stripeClient = NoClient
  /\ PARKING_PRODUCTS = NoCatalog
  /\ inflight = EmptyBag
  /\ last = NoReq

\* src/index.js from its first line to app.listen: without both credentials
\* the process exits with code 1; with them the client is built and the
\* server listens.
Startup ==
  /\ proc = "booting"
  /\ program = "index.js"
  /\ IF "RAZORPAY_KEY_ID" \notin env \/ "RAZORPAY_SECRET" \notin env
     THEN proc' = "exited" /\ UNCHANGED razorpay
     ELSE proc' = "listening" /\ razorpay' = "Razorpay"
  /\ UNCHANGED <<program, env, stripeClient, PARKING_PRODUCTS, inflight, last>>

\* src/unnamed/part_001, the same start in the earlier versions.
Startup_part_001 ==
  /\ proc = "booting"
  /\ program = "part_001"
  /\ IF "RAZORPAY_KEY_ID" \notin env \/ "RAZORPAY_SECRET" \notin env
     THEN proc' = "exited" /\ UNCHANGED razorpay
     ELSE proc' = "listening" /\ razorpay' = "Razorpay"
  /\ UNCHANGED <<program, env, stripeClient, PARKING_PRODUCTS, inflight, last>>

\* src/unnamed/part_000: the client is built from whatever STRIPE_SECRET_KEY
\* holds, with no check by the program, the catalog is defined and the server
\* listens. With the key unset the outcome depends on the stripe package
\* installed: it builds a client without a key, or its constructor throws
\* and the process ends at that line.
Startup_part_000 ==
  /\ proc = "booting"
  /\ program = "part_000"
  /\ \/ /\ stripeClient' = "stripe"
        /\ PARKING_PRODUCTS' = Catalog
        /\ proc' = "listening"
     \/ /\ "STRIPE_SECRET_KEY" \notin env
        /\ proc' = "exited"
        /\ UNCHANGED <<stripeClient, PARKING_PRODUCTS>>
  /\ UNCHANGED <<program, env, razorpay, inflight, last>>

-----------------------------------------------------------------------------
(* POST /api/create-razorpay-order *)

minimumAmount == 50

AmountInputs ==
  {Undef, Whole(0), Whole(-5), Whole(49), Whole(50), Num(100004),
   PosInf, NegInf, Str("abc")}

OrderBodies ==
  [amount : AmountInputs,
   spotName : {Undef, Str("A1")},
   duration : {Str(""), Str("2h")}]

\* What razorpay.orders.create may reject with.
RazorpayErrors ==
  [statusCode : {Undef, Whole(400), Whole(401), Whole(403), Whole(500)},
   code : {Undef, Str("ENOTFOUND"), Str("ECONNREFUSED")},
   message : {Str("raw gateway detail")}]

\* The order razorpay.orders.create resolves with: the gateway echoes the
\* amount and the currency it was sent.
CreatedOrder(options) ==
  [id |-> "order_1", amount |-> options.amount, currency |-> options.currency]

\* The gateway creates an order only for a whole number of paise.
GatewayAccepts(options) == IsInteger(options.amount)

MinimumMessage(amount) ==
  Template("Minimum booking amount is {minimumAmount}. Your amount: {amount}",
           <<Whole(minimumAmount), amount>>)

\* ValidateOrder without its minimum-amount check.
ValidateOrder_NoMinimum(body) ==
  IF ~Truthy(body.amount) \/ ~Truthy(body.spotName) \/ ~Truthy(body.duration)
  THEN Json(400, [error |-> Msg("Missing required fields")])
  ELSE IF isNaN(body.amount) \/ LessEq(body.amount, Whole(0))
  THEN Json(400, [error |-> Msg("Invalid amount. Amount must be a positive number.")])
  ELSE NoResponse

\* ValidateOrder with the minimum itself rejected (<= for <).
ValidateOrder_ExclusiveMinimum(body) ==
  IF ~Truthy(body.amount) \/ ~Truthy(body.spotName) \/ ~Truthy(body.duration)
  THEN Json(400, [error |-> Msg("Missing required fields")])
  ELSE IF isNaN(body.amount) \/ LessEq(body.amount, Whole(0))
  THEN Json(400, [error |-> Msg("Invalid amount. Amount must be a positive number.")])
  ELSE IF LessEq(body.amount, Whole(minimumAmount))
  THEN Json(400, [error |-> MinimumMessage(body.amount),
                  minimumAmount |-> Whole(minimumAmount)])
  ELSE NoResponse

\* src/index.js: the checks before the gateway call; the response of the
\* check that fails, NoResponse when all pass.
ValidateOrder(body) ==
  IF ~Truthy(body.amount) \/ ~Truthy(body.spotName) \/ ~Truthy(body.duration)
  THEN Json(400, [error |-> Msg("Missing required fields")])
  ELSE IF isNaN(body.amount) \/ LessEq(body.amount, Whole(0))
  THEN Json(400, [error |-> Msg("Invalid amount. Amount must be a positive number.")])
  ELSE IF Less(body.amount, Whole(minimumAmount))
  THEN Json(400, [error |-> MinimumMessage(body.amount),
                  minimumAmount |-> Whole(minimumAmount)])
  ELSE NoResponse

\* src/index.js: the options object, amount in paise rounded.
OrderOptions(body) ==
  {[amount |-> paise, currency |-> "INR", receipt |-> "receipt_order_{Date.now()}",
    notes |-> [spotName |-> body.spotName, duration |-> body.duration]] :
     paise \in MathRound(Times100(body.amount))}

\* ClassifyOrderError with the upstream-5xx test ahead of the network-code
\* test.
ClassifyOrderError_StatusFirst(error) ==
  IF error.statusCode = Whole(401)
  THEN [errorMessage |-> "Authentication failed with payment provider. Please check credentials.",
        statusCode |-> 500]
  ELSE IF error.statusCode = Whole(400)
  THEN [errorMessage |-> "Invalid request to payment provider. Please check the request data.",
        statusCode |-> 400]
  ELSE IF GreaterEq(error.statusCode, Whole(500))
  THEN [errorMessage |-> "Payment provider is temporarily unavailable. Please try again later.",
        statusCode |-> 503]
  ELSE IF error.code = Str("ENOTFOUND") \/ error.code = Str("ECONNREFUSED")
  THEN [errorMessage |-> "Unable to connect to payment provider. Please try again later.",
        statusCode |-> 500]
  ELSE [errorMessage |-> "Failed to create payment order", statusCode |-> 500]

\* src/index.js: the catch block's choice of message and status.
ClassifyOrderError(error) ==
  IF error.statusCode = Whole(401)
  THEN [errorMessage |-> "Authentication failed with payment provider. Please check credentials.",
        statusCode |-> 500]
  ELSE IF error.statusCode = Whole(400)
  THEN [errorMessage |-> "Invalid request to payment provider. Please check the request data.",
        statusCode |-> 400]
  ELSE IF error.code = Str("ENOTFOUND") \/ error.code = Str("ECONNREFUSED")
  THEN [errorMessage |-> "Unable to connect to payment provider. Please try again later.",
        statusCode |-> 500]
  ELSE IF GreaterEq(error.statusCode, Whole(500))
  THEN [errorMessage |-> "Payment provider is temporarily unavailable. Please try again later.",
        statusCode |-> 503]
  ELSE [errorMessage |-> "Failed to create payment order", statusCode |-> 500]

\* src/index.js: the handler up to its response or its await.
CreateRazorpayOrder(body) ==
  /\ proc = "listening"
  /\ program = "index.js"
  /\ LET req == NewReq("POST /api/create-razorpay-order", body)
         rejected == ValidateOrder(body)
     IN IF rejected # NoResponse
        THEN Respond(req, rejected)
        ELSE \E options \in OrderOptions(body) :
               IF razorpay = NoClient
               THEN Respond([req EXCEPT !.payload = options],
                            Json(500, [error |-> Msg("Payment system not initialized"),
                                       message |-> Str("Razorpay instance is not properly initialized")]))
               ELSE Suspend([req EXCEPT !.payload = options, !.calls = @ + 1])

\* src/index.js: razorpay.orders.create resolved.
OrdersCreateResolved(req) ==
  /\ program = "index.js"
  /\ BagIn(req, inflight)
  /\ req.route = "POST /api/create-razorpay-order"
  /\ GatewayAccepts(req.payload)
  /\ LET order == CreatedOrder(req.payload)
     IN Resume(req, "resolved", order,
               Json(200, [orderId |-> order.id, amount |-> order.amount,
                          currency |-> order.currency]))

\* OrdersCreateRejected with one retry of the call before it gives up.
OrdersCreateRejected_Retry(req, error) ==
  /\ program = "index.js"
  /\ BagIn(req, inflight)
  /\ req.route = "POST /api/create-razorpay-order"
  /\ IF req.calls < 2
     THEN /\ inflight' = (inflight (-) SetToBag({req}))
                           (+) SetToBag({[req EXCEPT !.calls = @ + 1]})
          /\ UNCHANGED <<program, env, proc, razorpay, stripeClient, PARKING_PRODUCTS, last>>
     ELSE Resume(req, "rejected", error,
                 Json(500, [error |-> Msg("Failed to create payment order"),
                            message |-> error.message,
                            statusCode |-> error.statusCode]))

\* src/index.js: razorpay.orders.create rejected; the catch block responds.
OrdersCreateRejected(req, error) ==
  /\ program = "index.js"
  /\ BagIn(req, inflight)
  /\ req.route = "POST /api/create-razorpay-order"
  /\ LET class == ClassifyOrderError(error)
     IN Resume(req, "rejected", error,
               Json(class.statusCode,
                    [error |-> Msg(class.errorMessage), message |-> error.message,
                     statusCode |-> error.statusCode]))

\* src/unnamed/part_001: the checks before the gateway call.
ValidateOrder_part_001(body) ==
  IF ~Truthy(body.amount) \/ ~Truthy(body.spotName) \/ ~Truthy(body.duration)
  THEN Json(400, [error |-> Msg("Missing required fields")])
  ELSE IF Less(body.amount, Whole(minimumAmount))
  THEN Json(400, [error |-> MinimumMessage(body.amount),
                  minimumAmount |-> Whole(minimumAmount)])
  ELSE NoResponse

\* src/unnamed/part_001: the options object, amount * 100 as it comes.
OrderOptions_part_001(body) ==
  [amount |-> Times100(body.amount), currency |-> "INR",
   receipt |-> "receipt_order_{Date.now()}",
   notes |-> [spotName |-> body.spotName, duration |-> body.duration]]

\* src/unnamed/part_001: the handler up to its response or its await.
CreateRazorpayOrder_part_001(body) ==
  /\ proc = "listening"
  /\ program = "part_001"
  /\ LET req == NewReq("POST /api/create-razorpay-order", body)
         rejected == ValidateOrder_part_001(body)
     IN IF rejected # NoResponse
        THEN Respond(req, rejected)
        ELSE Suspend([req EXCEPT !.payload = OrderOptions_part_001(body),
                                 !.calls = @ + 1])

\* src/unnamed/part_001: razorpay.orders.create resolved.
OrdersCreateResolved_part_001(req) ==
  /\ program = "part_001"
  /\ BagIn(req, inflight)
  /\ req.route = "POST /api/create-razorpay-order"
  /\ GatewayAccepts(req.payload)
  /\ LET order == CreatedOrder(req.payload)
     IN Resume(req, "resolved", order,
               Json(200, [orderId |-> order.id, amount |-> order.amount,
                          currency |-> order.currency]))

\* src/unnamed/part_001: razorpay.orders.create rejected; the catch block
\* responds 500 with the raw message.
OrdersCreateRejected_part_001(req, error) ==
  /\ program = "part_001"
  /\ BagIn(req, inflight)
  /\ req.route = "POST /api/create-razorpay-order"
  /\ Resume(req, "rejected", error,
            Json(500, [error |-> Msg("Failed to create payment order"),
                       message |-> error.message]))

-----------------------------------------------------------------------------
(* POST /api/verify-razorpay-payment *)

\* The five fields the handler requires.
RequiredVerifyFields ==
  {"razorpay_order_id", "razorpay_payment_id", "bookingData", "spotId", "userId"}

\* Bodies with the five required fields, and any signature or none.
CompleteVerifyBodies ==
  [razorpay_order_id : {Str("order_1")},
   razorpay_payment_id : {Str("pay_1")},
   razorpay_signature : {Undef, Str("valid"), Str("forged")},
   bookingData : {Obj("booking_1"), Obj("booking_2")},
   spotId : {Str("spot_1")},
   userId : {Str("user_1")}]

\* The bodies sent: the complete ones, and each of them with one required
\* field absent (razorpay_payment_id: empty).
VerifyBodies ==
  CompleteVerifyBodies
    \cup {[body EXCEPT ![field] = IF field = "razorpay_payment_id" THEN Str("") ELSE Undef] :
            body \in CompleteVerifyBodies, field \in RequiredVerifyFields}

\* VerifyResponse refusing a request whose signature is not the valid one.
VerifyResponse_CheckSignature(body) ==
  IF \/ ~Truthy(body.razorpay_order_id) \/ ~Truthy(body.razorpay_payment_id)
     \/ ~Truthy(body.bookingData) \/ ~Truthy(body.spotId) \/ ~Truthy(body.userId)
  THEN Json(400, [error |-> Msg("Missing required fields")])
  ELSE IF body.razorpay_signature # Str("valid")
  THEN Json(400, [error |-> Msg("Invalid payment signature")])
  ELSE Json(200, [success |-> TRUE, paymentId |-> body.razorpay_payment_id,
                  orderId |-> body.razorpay_order_id, bookingData |-> body.bookingData])

\* VerifyResponse with userId left out of the required fields.
VerifyResponse_NoUserId(body) ==
  IF \/ ~Truthy(body.razorpay_order_id) \/ ~Truthy(body.razorpay_payment_id)
     \/ ~Truthy(body.bookingData) \/ ~Truthy(body.spotId)
  THEN Json(400, [error |-> Msg("Missing required fields")])
  ELSE Json(200, [success |-> TRUE, paymentId |-> body.razorpay_payment_id,
                  orderId |-> body.razorpay_order_id, bookingData |-> body.bookingData])

\* src/index.js: the whole handler; it issues no gateway call.
VerifyResponse(body) ==
  IF \/ ~Truthy(body.razorpay_order_id) \/ ~Truthy(body.razorpay_payment_id)
     \/ ~Truthy(body.bookingData) \/ ~Truthy(body.spotId) \/ ~Truthy(body.userId)
  THEN Json(400, [error |-> Msg("Missing required fields")])
  ELSE Json(200, [success |-> TRUE, paymentId |-> body.razorpay_payment_id,
                  orderId |-> body.razorpay_order_id, bookingData |-> body.bookingData])

VerifyRazorpayPayment(body) ==
  /\ proc = "listening"
  /\ program = "index.js"
  /\ Respond(NewReq("POST /api/verify-razorpay-payment", body), VerifyResponse(body))

\* src/unnamed/part_001: the same handler in the earlier versions.
VerifyResponse_part_001(body) ==
  IF \/ ~Truthy(body.razorpay_order_id) \/ ~Truthy(body.razorpay_payment_id)
     \/ ~Truthy(body.bookingData) \/ ~Truthy(body.spotId) \/ ~Truthy(body.userId)
  THEN Json(400, [error |-> Msg("Missing required fields")])
  ELSE Json(200, [success |-> TRUE, paymentId |-> body.razorpay_payment_id,
                  orderId |-> body.razorpay_order_id, bookingData |-> body.bookingData])

VerifyRazorpayPayment_part_001(body) ==
  /\ proc = "listening"
  /\ program = "part_001"
  /\ Respond(NewReq("POST /api/verify-razorpay-payment", body),
             VerifyResponse_part_001(body))

-----------------------------------------------------------------------------
(* Property access on the objects of src/unnamed/part_000 *)

\* The function-valued properties every plain object inherits from
\* Object.prototype.
ObjectPrototypeFunctions ==
  {"constructor", "toString", "toLocaleString", "valueOf", "hasOwnProperty",
   "isPrototypeOf", "propertyIsEnumerable"}

\* obj[key] for a plain object: an own property, else what Object.prototype
\* supplies, else undefined.
GetProperty(obj, key) ==
  IF key \in DOMAIN obj THEN obj[key]
  ELSE IF key = "__proto__" THEN Obj("Object.prototype")
  ELSE IF key \in ObjectPrototypeFunctions
  THEN Fn(IF key = "constructor" THEN "Object" ELSE key)
  ELSE Undef

\* value.field for a value that is not undefined.
Prop(v, field) ==
  IF field = "name" /\ v.t = "function" THEN Str(v.name)
  ELSE IF v.t = "object" /\ field \in DOMAIN v THEN v[field]
  ELSE Undef

\* {...value}: the own enumerable properties (a function and Object.prototype
\* have none).
Spread(v) ==
  IF v.t = "object" /\ "id" \notin DOMAIN v
  THEN [k \in DOMAIN v \ {"t"} |-> v[k]]
  ELSE [k \in {} |-> Undef]

Merge(f, g) ==
  [k \in DOMAIN f \cup DOMAIN g |-> IF k \in DOMAIN g THEN g[k] ELSE f[k]]

\* (price / 100).toFixed(2): the number with two decimals, as a string.
ToFixed2(price) ==
  LET x == ToNumber(price) IN
  IF x.t = "number"
  THEN [t |-> "string", centi |-> ((x.milli \div 100) + 5) \div 10]
  ELSE Str(x.t)

\* hours.toString()
NumberToString(n) == [t |-> "string", centi |-> n.milli \div 10]

-----------------------------------------------------------------------------
(* GET /products/:id, GET /products, GET /health *)

ProductIdInputs ==
  {"1", "2", "5", "10", "24", "999", "0", "constructor", "toString", "__proto__"}

\* src/unnamed/part_000: the whole handler.
ProductResponse(id) ==
  LET product == GetProperty(PARKING_PRODUCTS, id) IN
  IF ~Truthy(product)
  THEN Json(404, [error |-> Msg("Product not found")])
  ELSE Json(200, Merge(Merge([id |-> Str(id)], Spread(product)),
                       [priceFormatted |-> ToFixed2(Prop(product, "price"))]))

\* GetProduct keeping the formatted price it computed in the catalog entry.
GetProduct_Memoize(id) ==
  /\ proc = "listening"
  /\ program = "part_000"
  /\ last' = [NewReq("GET /products/:id", [id |-> id])
                EXCEPT !.response = ProductResponse(id)]
  /\ PARKING_PRODUCTS' =
       [k \in DOMAIN PARKING_PRODUCTS |->
          IF k = id
          THEN Merge(PARKING_PRODUCTS[k],
                     [priceFormatted |-> ToFixed2(PARKING_PRODUCTS[k].price)])
          ELSE PARKING_PRODUCTS[k]]
  /\ UNCHANGED <<program, env, proc, razorpay, stripeClient, inflight>>

GetProduct(id) ==
  /\ proc = "listening"
  /\ program = "part_000"
  /\ Respond(NewReq("GET /products/:id", [id |-> id]), ProductResponse(id))

GetProducts ==
  /\ proc = "listening"
  /\ program = "part_000"
  /\ Respond(NewReq("GET /products", Undef),
             Json(200, [products |->
               {Merge(Merge([id |-> Str(id)], Spread(PARKING_PRODUCTS[id])),
                      [priceFormatted |-> ToFixed2(PARKING_PRODUCTS[id].price)]) :
                  id \in DOMAIN PARKING_PRODUCTS}]))

Health ==
  /\ proc = "listening"
  /\ program = "part_000"
  /\ Respond(NewReq("GET /health", Undef),
             Json(200, [status |-> "OK", timestamp |-> "{new Date().toISOString()}",
                        products |-> Cardinality(DOMAIN PARKING_PRODUCTS)]))

-----------------------------------------------------------------------------
(* POST /create-checkout-session *)

VehicleData(plateNumber, ownerName, vehicleModel) ==
  [t |-> "object", plateNumber |-> plateNumber, ownerName |-> ownerName,
   vehicleModel |-> vehicleModel]

CheckoutBodies ==
  [productId : {Undef, Str("1"), Str("24"), Str("999"), Str("constructor"), Str("__proto__")},
   vehicleData : {Undef,
                  VehicleData(Undef, Str("Asha"), Undef),
                  VehicleData(Str("MH12AB1234"), Str(""), Str("Swift")),
                  VehicleData(Str("MH12AB1234"), Str("Asha"), Str("Swift"))},
   urls : {[successUrl |-> Undef, cancelUrl |-> Undef],
           [successUrl |-> Str("https://app/paid"), cancelUrl |-> Str("https://app/back")]}]

StripeErrors == [message : {Str("raw stripe detail")}]

\* src/unnamed/part_000: the two checks before the session is built.
ValidateCheckout(body) ==
  IF ~Truthy(body.productId)
     \/ ~Truthy(GetProperty(PARKING_PRODUCTS, body.productId.s))
  THEN Json(400, [error |-> Msg("Invalid product ID")])
  ELSE IF \/ ~Truthy(body.vehicleData)
          \/ ~Truthy(Prop(body.vehicleData, "plateNumber"))
          \/ ~Truthy(Prop(body.vehicleData, "ownerName"))
  THEN Json(400, [error |-> Msg("Vehicle data is required")])
  ELSE NoResponse

\* src/unnamed/part_000: building the argument of sessions.create throws a
\* TypeError at product.hours.toString() when the product has no hours.
SessionParamsThrow(product) == Prop(product, "hours") = Undef

\* src/unnamed/part_000: the argument of stripeClient.checkout.sessions.create.
SessionParams(body, product) ==
  LET hours == Prop(product, "hours")
      metadata == [plateNumber |-> body.vehicleData.plateNumber,
                   ownerName |-> body.vehicleData.ownerName,
                   vehicleModel |-> body.vehicleData.vehicleModel,
                   hours |-> NumberToString(hours)]
  IN [payment_method_types |-> <<"card">>,
      currency |-> "inr",
      name |-> Prop(product, "name"),
      description |-> Template("Prepaid parking for {hours} hour{s}",
                        <<hours, Str(IF Less(Whole(1), hours) THEN "s" ELSE "")>>),
      product_metadata |-> metadata,
      unit_amount |-> Prop(product, "price"),
      quantity |-> 1,
      mode |-> "payment",
      success_url |-> IF Truthy(body.urls.successUrl) THEN body.urls.successUrl
                      ELSE Str("{FRONTEND_URL}?payment=success&session_id={CHECKOUT_SESSION_ID}"),
      cancel_url |-> IF Truthy(body.urls.cancelUrl) THEN body.urls.cancelUrl
                     ELSE Str("{FRONTEND_URL}?payment=cancelled"),
      metadata |-> Merge(metadata, [productId |-> body.productId])]

\* src/unnamed/part_000: the handler up to its response or its await.
CreateCheckoutSession(body) ==
  /\ proc = "listening"
  /\ program = "part_000"
  /\ LET req == NewReq("POST /create-checkout-session", body)
         rejected == ValidateCheckout(body)
     IN IF rejected # NoResponse
        THEN Respond(req, rejected)
        ELSE LET product == GetProperty(PARKING_PRODUCTS, body.productId.s)
             IN IF SessionParamsThrow(product)
                THEN Respond(req, Json(500, [error |->
                       Str("Cannot read properties of undefined (reading 'toString')")]))
                ELSE Suspend([req EXCEPT !.payload = SessionParams(body, product),
                                         !.calls = @ + 1])

\* src/unnamed/part_000: sessions.create resolved.
SessionsCreateResolved(req) ==
  /\ program = "part_000"
  /\ BagIn(req, inflight)
  /\ req.route = "POST /create-checkout-session"
  /\ Resume(req, "resolved", [id |-> Str("cs_test_1"),
                              url |-> Str("https://checkout.stripe.com/c/pay/cs_test_1")],
            Json(200, [sessionId |-> Str("cs_test_1"),
                       url |-> Str("https://checkout.stripe.com/c/pay/cs_test_1"),
                       productInfo |->
                         GetProperty(PARKING_PRODUCTS, req.input.productId.s)]))

\* src/unnamed/part_000: sessions.create rejected; the catch block responds.
SessionsCreateRejected(req, error) ==
  /\ program = "part_000"
  /\ BagIn(req, inflight)
  /\ req.route = "POST /create-checkout-session"
  /\ Resume(req, "rejected", error,
            Json(500, [error |-> error.message]))

-----------------------------------------------------------------------------
(* GET /verify-session/:sessionId *)

SessionIdInputs == {"cs_test_1"}

\* What stripeClient.checkout.sessions.retrieve may resolve with.
RetrievedSessions(sessionId) ==
  [id : {Str(sessionId)},
   payment_status : {Str("paid"), Str("unpaid"), Str("no_payment_required")},
   amount_total : {Whole(19900)},
   metadata : {Obj("session.metadata")}]

\* src/unnamed/part_000: the handler up to its await.
VerifySession(sessionId) ==
  /\ proc = "listening"
  /\ program = "part_000"
  /\ Suspend([NewReq("GET /verify-session/:sessionId", [sessionId |-> sessionId])
                EXCEPT !.payload = [sessionId |-> sessionId], !.calls = @ + 1])

\* VerifySessionResponse counting every status but 'unpaid' as success.
VerifySessionResponse_NotUnpaid(session) ==
  IF session.payment_status # Str("unpaid")
  THEN Json(200, [success |-> TRUE,
                  session |-> [id |-> session.id,
                               payment_status |-> session.payment_status,
                               amount_total |-> session.amount_total,
                               metadata |-> session.metadata]])
  ELSE Json(200, [success |-> FALSE, payment_status |-> session.payment_status])

\* src/unnamed/part_000: the response to a retrieved session.
VerifySessionResponse(session) ==
  IF session.payment_status = Str("paid")
  THEN Json(200, [success |-> TRUE,
                  session |-> [id |-> session.id,
                               payment_status |-> session.payment_status,
                               amount_total |-> session.amount_total,
                               metadata |-> session.metadata]])
  ELSE Json(200, [success |-> FALSE, payment_status |-> session.payment_status])

SessionsRetrieveResolved(req) ==
  /\ program = "part_000"
  /\ BagIn(req, inflight)
  /\ req.route = "GET /verify-session/:sessionId"
  /\ \E session \in RetrievedSessions(req.payload.sessionId) :
       Resume(req, "resolved", session, VerifySessionResponse(session))

\* SessionsRetrieveRejected as a timeout: the handler gives up waiting and
\* responds while the call has not settled.
SessionsRetrieveRejected_Timeout(req, error) ==
  /\ program = "part_000"
  /\ BagIn(req, inflight)
  /\ req.route = "GET /verify-session/:sessionId"
  /\ Resume(req, "none", NoOutcome,
            Json(504, [error |-> Msg("Gateway timeout")]))

SessionsRetrieveRejected(req, error) ==
  /\ program = "part_000"
  /\ BagIn(req, inflight)
  /\ req.route = "GET /verify-session/:sessionId"
  /\ Resume(req, "rejected", error,
            Json(500, [error |-> error.message]))

-----------------------------------------------------------------------------
(* POST /webhook *)

WebhookRequests ==
  [signature : {Undef, Str("valid"), Str("tampered")},
   type : {"checkout.session.completed", "payment_intent.succeeded", "customer.created"}]

\* stripeClient.webhooks.constructEvent throws unless the stripe-signature
\* header is a valid signature of the raw body under the webhook secret.
ConstructEventThrows(request) == request.signature # Str("valid")

\* The event constructEvent returns: the parsed body, a Stripe event, which
\* carries its object in data.object.
ConstructEvent(request) ==
  [type |-> request.type, data |-> [object |-> Obj("event.data.object")]]

\* src/unnamed/part_000: the branch of switch (event.type) that runs.
SwitchBranch(event) ==
  CASE event.type = "checkout.session.completed" -> "checkout.session.completed"
    [] event.type = "payment_intent.succeeded" -> "payment_intent.succeeded"
    [] OTHER -> "default"

\* Webhook dispatching on the parsed body whether or not the signature
\* verified.
Webhook_Unverified(request) ==
  /\ proc = "listening"
  /\ program = "part_000"
  /\ Respond([NewReq("POST /webhook", request)
                EXCEPT !.branch = SwitchBranch(ConstructEvent(request))],
             Json(200, [received |-> TRUE]))

\* Webhook acknowledging only the event types it has a case for.
Webhook_AckKnownOnly(request) ==
  /\ proc = "listening"
  /\ program = "part_000"
  /\ LET req == NewReq("POST /webhook", request)
         branch == SwitchBranch(ConstructEvent(request))
     IN IF ConstructEventThrows(request)
        THEN Respond(req, Text(400, Template("Webhook Error: {err.message}",
               <<Str("No signatures found matching the expected signature for payload")>>)))
        ELSE IF branch = "default"
        THEN Respond([req EXCEPT !.branch = branch],
                     Json(400, [error |-> Msg("Unhandled event type")]))
        ELSE Respond([req EXCEPT !.branch = branch], Json(200, [received |-> TRUE]))

\* src/unnamed/part_000: the whole handler; it has no await.
Webhook(request) ==
  /\ proc = "listening"
  /\ program = "part_000"
  /\ LET req == NewReq("POST /webhook", request)
     IN IF ConstructEventThrows(request)
        THEN Respond(req, Text(400, Template("Webhook Error: {err.message}",
               <<Str("No signatures found matching the expected signature for payload")>>)))
        ELSE Respond([req EXCEPT !.branch = SwitchBranch(ConstructEvent(request))],
                     Json(200, [received |-> TRUE]))

-----------------------------------------------------------------------------
(* GET /api/health, GET /api/test-razorpay, GET /api/test-razorpay-connectivity *)

ApiHealth ==
  /\ proc = "listening"
  /\ program = "index.js"
  /\ Respond(NewReq("GET /api/health", Undef),
             Json(200, [status |-> "ok", message |-> Str("Server is running"),
                        timestamp |-> "{new Date().toISOString()}"]))

ApiHealth_part_001 ==
  /\ proc = "listening"
  /\ program = "part_001"
  /\ Respond(NewReq("GET /api/health", Undef),
             Json(200, [status |-> "ok", message |-> Str("Server is running")]))

\* src/index.js: reports whether the client exists; no gateway call.
TestRazorpay ==
  /\ proc = "listening"
  /\ program = "index.js"
  /\ Respond(NewReq("GET /api/test-razorpay", Undef),
             IF razorpay = NoClient
             THEN Json(500, [error |-> Msg("Payment system not initialized"),
                             message |-> Str("Razorpay instance is not properly initialized")])
             ELSE Json(200, [status |-> "success",
                             message |-> Str("Razorpay instance is properly initialized")]))

\* src/index.js: the handler up to its response or its await of orders.all.
TestRazorpayConnectivity ==
  /\ proc = "listening"
  /\ program = "index.js"
  /\ LET req == NewReq("GET /api/test-razorpay-connectivity", Undef)
     IN IF razorpay = NoClient
        THEN Respond(req, Json(500, [success |-> FALSE,
                                     error |-> Msg("Payment system not initialized"),
                                     message |-> Str("Razorpay instance is not properly initialized")]))
        ELSE Suspend([req EXCEPT !.payload = [count |-> 1], !.calls = @ + 1])

OrdersAllResolved(req) ==
  /\ program = "index.js"
  /\ BagIn(req, inflight)
  /\ req.route = "GET /api/test-razorpay-connectivity"
  /\ Resume(req, "resolved", [count |-> Whole(1)],
            Json(200, [success |-> TRUE,
                       message |-> Str("Razorpay API connectivity verified"),
                       orders_count |-> Whole(1)]))

\* src/index.js: orders.all rejected; the status is the gateway's own, 500
\* when the error carries none.
OrdersAllRejected(req, error) ==
  /\ program = "index.js"
  /\ BagIn(req, inflight)
  /\ req.route = "GET /api/test-razorpay-connectivity"
  /\ Resume(req, "rejected", error,
            Json(IF Truthy(error.statusCode) THEN error.statusCode.milli \div 1000 ELSE 500,
                 [success |-> FALSE,
                  error |-> Msg(IF error.statusCode = Whole(401)
                                THEN "Razorpay authentication failed - check your credentials"
                                ELSE IF error.statusCode = Whole(403)
                                THEN "Razorpay access forbidden - check your permissions"
                                ELSE "Failed to connect to Razorpay API"),
                  message |-> error.message,
                  statusCode |-> error.statusCode]))

-----------------------------------------------------------------------------
(* Requests that do not reach a route: cors, express.json(), the error and
   404 handlers *)

allowedOrigins ==
  {"http://localhost:8081", "http://localhost:8080", "http://localhost:5173",
   "https://trackmypark.vercel.app", "https://trackmypark.com",
   "https://www.trackmypark.com", "https://trackmypark.vercel.app/"}

OriginInputs == {"https://trackmypark.com", "https://other.example"}

\* The request bodies express.json() fails to parse.
MalformedBodies == {"{\"amount\": 100,"}

\* The error express.json() passes to next() for a body it cannot parse.
ParseError(body) ==
  [status |-> Whole(400), type |-> Str("entity.parse.failed"),
   message |-> Str("Unexpected end of JSON input")]

\* src/index.js: the global error handler.
GlobalErrorHandler(err) ==
  Json(500, [error |-> Msg("Internal server error"),
             message |-> IF Development THEN err.message
                         ELSE Str("Something went wrong!")])

\* src/index.js: outside development the cors origin function refuses an
\* Origin that is not in its list, and the global error handler responds.
CorsRejected(origin, url) ==
  /\ proc = "listening"
  /\ program = "index.js"
  /\ ~Development
  /\ origin \notin allowedOrigins
  /\ LET err == [message |-> Str("Not allowed by CORS")]
     IN Respond([NewReq("cors", [url |-> url, origin |-> origin])
                   EXCEPT !.outcome = err],
                GlobalErrorHandler(err))

\* src/index.js: express.json() fails on the body of a POST request and the
\* global error handler responds.
MalformedJson(url, body) ==
  /\ proc = "listening"
  /\ program = "index.js"
  /\ LET err == ParseError(body)
     IN Respond([NewReq("express.json()", [url |-> url, body |-> body])
                   EXCEPT !.outcome = err],
                GlobalErrorHandler(err))

\* src/index.js: the 404 handler, for a request no route matches.
RouteNotFound(originalUrl) ==
  /\ proc = "listening"
  /\ program = "index.js"
  /\ Respond(NewReq("404", [url |-> originalUrl]),
             Json(404, [error |-> Msg("Route not found"),
                        message |-> Template("The requested route {req.originalUrl} does not exist",
                                             <<Str(originalUrl)>>)]))

\* The framework's error page for an error no handler of the program takes:
\* the error's status, an HTML body.
DefaultErrorPage(err) ==
  Html(err.status.milli \div 1000, Msg("<pre>{the error's stack, or the status text}</pre>"))

\* src/unnamed/part_001 registers no error handler: the framework answers a
\* body express.json() cannot parse.
MalformedJson_part_001(url, body) ==
  /\ proc = "listening"
  /\ program = "part_001"
  /\ LET err == ParseError(body)
     IN Respond([NewReq("express.json()", [url |-> url, body |-> body])
                   EXCEPT !.outcome = err],
                DefaultErrorPage(err))

\* src/unnamed/part_000, the same.
MalformedJson_part_000(url, body) ==
  /\ proc = "listening"
  /\ program = "part_000"
  /\ LET err == ParseError(body)
     IN Respond([NewReq("express.json()", [url |-> url, body |-> body])
                   EXCEPT !.outcome = err],
                DefaultErrorPage(err))

-----------------------------------------------------------------------------
(* The servers *)

Next ==
  \/ Startup
  \/ Startup_part_001
  \/ Startup_part_000
  \/ \E body \in OrderBodies : CreateRazorpayOrder(body)
  \/ \E req \in BagToSet(inflight) : OrdersCreateResolved(req)
  \/ \E req \in BagToSet(inflight), error \in RazorpayErrors : OrdersCreateRejected(req, error)
  \/ \E body \in OrderBodies : CreateRazorpayOrder_part_001(body)
  \/ \E req \in BagToSet(inflight) : OrdersCreateResolved_part_001(req)
  \/ \E req \in BagToSet(inflight), error \in RazorpayErrors : OrdersCreateRejected_part_001(req, error)
  \/ \E body \in VerifyBodies : VerifyRazorpayPayment(body)
  \/ \E body \in VerifyBodies : VerifyRazorpayPayment_part_001(body)
  \/ ApiHealth
  \/ ApiHealth_part_001
  \/ TestRazorpay
  \/ TestRazorpayConnectivity
  \/ \E req \in BagToSet(inflight) : OrdersAllResolved(req)
  \/ \E req \in BagToSet(inflight), error \in RazorpayErrors : OrdersAllRejected(req, error)
  \/ \E id \in ProductIdInputs : GetProduct(id)
  \/ GetProducts
  \/ Health
  \/ \E body \in CheckoutBodies : CreateCheckoutSession(body)
  \/ \E req \in BagToSet(inflight) : SessionsCreateResolved(req)
  \/ \E req \in BagToSet(inflight), error \in StripeErrors : SessionsCreateRejected(req, error)
  \/ \E sessionId \in SessionIdInputs : VerifySession(sessionId)
  \/ \E req \in BagToSet(inflight) : SessionsRetrieveResolved(req)
  \/ \E req \in BagToSet(inflight), error \in StripeErrors : SessionsRetrieveRejected(req, error)
  \/ \E request \in WebhookRequests : Webhook(request)
  \/ \E origin \in OriginInputs : CorsRejected(origin, "GET /api/health")
  \/ \E body \in MalformedBodies :
       MalformedJson("POST /api/create-razorpay-order", body)
  \/ RouteNotFound("/api/orders")
  \/ \E body \in MalformedBodies :
       MalformedJson_part_001("POST /api/create-razorpay-order", body)
  \/ \E body \in MalformedBodies :
       MalformedJson_part_000("POST /create-checkout-session", body)

Spec == Init /\ [][Next]_vars

-----------------------------------------------------------------------------
(* Properties *)

\* Every request the state holds: those awaiting the gateway, and the one
\* that completed last.
Requests == BagToSet(inflight) \cup (IF last = NoReq THEN {} ELSE {last})

Completed(req) == req = last

OrderRequests == {req \in Requests : req.route = "POST /api/create-razorpay-order"}

\* spotName and duration are present (non-empty).
DescribedOrder(req) == Truthy(req.input.spotName) /\ Truthy(req.input.duration)

Range(seq) == {seq[i] : i \in DOMAIN seq}

\* The response's error message is the minimum-amount message and names 50.
StatesMinimum(response) ==
  /\ "error" \in DOMAIN response.body
  /\ response.body.error.text
       = "Minimum booking amount is {minimumAmount}. Your amount: {amount}"
  /\ Whole(50) \in Range(response.body.error.args)

\* The amount is a number (not a string, not absent).
NumericAmount(req) == req.input.amount.t \in {"number", "Infinity", "-Infinity"}

\* C1, as claimed: every order request whose amount is below 50 (spotName and
\* duration present) is answered 400 with a message that states the minimum,
\* and issues no gateway call.
C1_BelowMinimumStatesMinimum ==
  \A req \in OrderRequests :
    (DescribedOrder(req) /\ Less(req.input.amount, Whole(50)))
      => /\ req.calls = 0
         /\ Completed(req)
         /\ req.response.status = 400
         /\ StatesMinimum(req.response)

\* C1, amended: every order request whose amount is a number below 50
\* (spotName and duration present) is answered 400 and issues no gateway
\* call; the message states the minimum exactly when the amount passed the
\* earlier checks: a positive amount in src/index.js, a non-zero amount in
\* part_001.
C1_BelowMinimumRejected ==
  \A req \in OrderRequests :
    (DescribedOrder(req) /\ NumericAmount(req) /\ Less(req.input.amount, Whole(50)))
      => /\ req.calls = 0
         /\ Completed(req)
         /\ req.response.status = 400
         /\ StatesMinimum(req.response)
              <=> IF program = "index.js"
                  THEN Less(Whole(0), req.input.amount)
                  ELSE req.input.amount # Whole(0)

C1_Witness ==
  /\ program = "index.js"
  /\ last # NoReq
  /\ last.route = "POST /api/create-razorpay-order"
  /\ DescribedOrder(last)
  /\ last.input.amount = Whole(49)
  /\ last.response.status = 400
  /\ StatesMinimum(last.response)
  /\ last.calls = 0

\* C2: the minimum is inclusive: an order request with a numeric amount >= 50
\* (50 itself included) and non-empty spotName and duration passes validation
\* and reaches the gateway call; a 400 it gets can only be the gateway's.
C2_MinimumInclusive ==
  \A req \in OrderRequests :
    (DescribedOrder(req) /\ NumericAmount(req)
       /\ GreaterEq(req.input.amount, Whole(50)))
      => /\ req.calls = 1
         /\ req.payload # NoPayload
         /\ (Completed(req) /\ req.response.status = 400) => req.gw = "rejected"

C2_Witness ==
  /\ program = "index.js"
  /\ last # NoReq
  /\ last.route = "POST /api/create-razorpay-order"
  /\ last.input.amount = Whole(50)
  /\ last.calls = 1
  /\ last.gw = "resolved"
  /\ last.payload.amount = Whole(5000)
  /\ last.response.status = 200

CreatingRoutes == {"POST /api/create-razorpay-order", "POST /create-checkout-session"}

\* C3: a request to an order- or session-creating endpoint issues at most one
\* gateway call; when the call is rejected the request completes with that one
\* call and a failure response (no retry).
C3_AtMostOneGatewayCall ==
  \A req \in Requests :
    req.route \in CreatingRoutes
      => /\ req.calls <= 1
         /\ req.gw = "rejected"
              => /\ req.calls = 1
                 /\ Completed(req)
                 /\ req.response.status \in {400, 500, 503}
                 /\ "error" \in DOMAIN req.response.body

C3_Witness ==
  /\ last # NoReq
  /\ last.route = "POST /api/create-razorpay-order"
  /\ program = "index.js"
  /\ last.gw = "rejected"
  /\ last.calls = 1
  /\ last.response.status = 503

\* C4, as claimed: in every order-creation handler the amount sent to the
\* gateway is an integer, amount x 100 rounded to the nearest integer.
C4_PaiseIsRoundedInteger ==
  \A req \in OrderRequests :
    req.payload # NoPayload
      => /\ IsInteger(req.payload.amount)
         /\ ToNumber(req.input.amount).t = "number"
         /\ req.payload.amount.milli - ToNumber(req.input.amount).milli * 100 \in -500..500

FinitePositive(v) == v.t = "number" /\ v.milli > 0

\* C5, as claimed: an order request whose amount is not a finite positive
\* number (spotName and duration present) is answered 400 and issues no
\* gateway call.
C5_OnlyFinitePositiveAccepted ==
  \A req \in OrderRequests :
    (DescribedOrder(req) /\ ~FinitePositive(req.input.amount))
      => /\ req.calls = 0
         /\ Completed(req)
         /\ req.response.status = 400

VerifyRequests == {req \in Requests : req.route = "POST /api/verify-razorpay-payment"}

Missing(v) == v = Undef \/ v = Str("")

\* C6: a verification request with any of razorpay_order_id,
\* razorpay_payment_id, bookingData, spotId, userId missing or empty is
\* answered 400 'Missing required fields', and no verification request ever
\* issues a gateway call or waits for one.
C6_MissingFieldRejected ==
  \A req \in VerifyRequests :
    /\ req.calls = 0
    /\ Completed(req)
    /\ (\/ Missing(req.input.razorpay_order_id) \/ Missing(req.input.razorpay_payment_id)
        \/ Missing(req.input.bookingData) \/ Missing(req.input.spotId)
        \/ Missing(req.input.userId))
         => req.response = Json(400, [error |-> Msg("Missing required fields")])

C6_Witness ==
  /\ last # NoReq
  /\ last.route = "POST /api/verify-razorpay-payment"
  /\ program = "index.js"
  /\ last.input.userId = Undef
  /\ ~Missing(last.input.razorpay_order_id)
  /\ ~Missing(last.input.razorpay_payment_id)
  /\ ~Missing(last.input.bookingData)
  /\ ~Missing(last.input.spotId)
  /\ last.input.razorpay_signature = Str("valid")
  /\ last.response.status = 400

HandledWebhooks == {req \in Requests : req.route = "POST /webhook"}

\* C7: a webhook request whose signature does not verify is answered 400 in
\* plain text; the switch on event.type is not reached and {received: true}
\* is not sent.
C7_BadSignatureRejected ==
  \A req \in HandledWebhooks :
    req.input.signature # Str("valid")
      => /\ Completed(req)
         /\ req.response.status = 400
         /\ req.response.type = "text"
         /\ req.branch = "none"
         /\ req.calls = 0

C7_Witness ==
  /\ last # NoReq
  /\ last.route = "POST /webhook"
  /\ last.input.signature = Str("tampered")
  /\ last.input.type = "checkout.session.completed"
  /\ last.response.status = 400
  /\ last.branch = "none"

\* C8: a webhook request whose signature verifies is answered
\* {received: true} with status 200 whatever its event type, in the step that
\* handles it (the handler has no await), and that step changes nothing of
\* the server: the catalog, the clients, the process, the requests in flight.
C8_VerifiedWebhookAcknowledged ==
  /\ [](\A req \in HandledWebhooks :
          req.input.signature = Str("valid")
            => /\ Completed(req)
               /\ req.response = Json(200, [received |-> TRUE])
               /\ req.branch # "none")
  /\ [][(last' # last /\ last'.route = "POST /webhook")
          => UNCHANGED <<program, env, proc, razorpay, stripeClient,
                         PARKING_PRODUCTS, inflight>>]_vars

C8_Witness ==
  /\ last # NoReq
  /\ last.route = "POST /webhook"
  /\ last.input.signature = Str("valid")
  /\ last.input.type = "customer.created"
  /\ last.branch = "default"
  /\ last.response = Json(200, [received |-> TRUE])
  /\ BagCardinality(inflight) > 0

CatalogKeys == {"1", "2", "5", "10", "24"}

\* C9, as claimed: GET /products/:id answers 404 {error: 'Product not found'}
\* for every id that is not a catalog key, and 200 only for catalog keys.
C9_UnknownProductNotFound ==
  \A req \in Requests :
    req.route = "GET /products/:id"
      => /\ req.input.id \notin CatalogKeys
              => req.response = Json(404, [error |-> Msg("Product not found")])
         /\ req.response.status = 200 => req.input.id \in CatalogKeys

\* The request names a catalog product and carries plateNumber and ownerName.
ValidCheckout(body) ==
  /\ body.productId.t = "string"
  /\ body.productId.s \in CatalogKeys
  /\ body.vehicleData # Undef
  /\ ~Missing(body.vehicleData.plateNumber)
  /\ ~Missing(body.vehicleData.ownerName)

\* C10, as claimed: POST /create-checkout-session issues the gateway call
\* only for a catalog productId with plateNumber and ownerName; every other
\* request is answered 400 with the invalid-product or the vehicle-data error
\* and issues no gateway call.
C10_CheckoutValidated ==
  \A req \in Requests :
    req.route = "POST /create-checkout-session"
      => /\ req.calls > 0 => ValidCheckout(req.input)
         /\ ~ValidCheckout(req.input)
              => /\ Completed(req)
                 /\ req.calls = 0
                 /\ req.response.status = 400
                 /\ req.response.body.error \in
                      {Msg("Invalid product ID"), Msg("Vehicle data is required")}

\* The error carries a network code that says the gateway was not reached.
NetworkUnreachable(error) == error.code \in {Str("ENOTFOUND"), Str("ECONNREFUSED")}

\* The error carries an upstream status of 500 or more.
Upstream5xx(error) ==
  error.statusCode.t = "number" /\ error.statusCode.milli >= 500 * 1000

\* C11: in src/index.js an order request whose gateway call is rejected is
\* answered by the first class that matches, in this order: statusCode 401 ->
\* 500 with the fixed authentication message; statusCode 400 -> 400; code
\* ENOTFOUND or ECONNREFUSED -> 500; statusCode >= 500 -> 503; anything else
\* -> 500 'Failed to create payment order'. So the status is 400, 500 or 503,
\* and it is 503 exactly for an upstream 5xx that is not network-unreachable.
C11_OrderErrorClassified ==
  \A req \in OrderRequests :
    (program = "index.js" /\ req.gw = "rejected")
      => LET error == req.outcome
             status == req.response.status
             message == req.response.body.error
         IN /\ Completed(req)
            /\ status \in {400, 500, 503}
            /\ status = 503 <=> (Upstream5xx(error) /\ ~NetworkUnreachable(error))
            /\ status = 400 <=> error.statusCode = Whole(400)
            /\ message = Msg("Authentication failed with payment provider. Please check credentials.")
                 <=> error.statusCode = Whole(401)
            /\ message = Msg("Invalid request to payment provider. Please check the request data.")
                 <=> error.statusCode = Whole(400)
            /\ message = Msg("Unable to connect to payment provider. Please try again later.")
                 <=> /\ error.statusCode \notin {Whole(401), Whole(400)}
                     /\ NetworkUnreachable(error)
            /\ message = Msg("Payment provider is temporarily unavailable. Please try again later.")
                 <=> (Upstream5xx(error) /\ ~NetworkUnreachable(error))
            /\ message = Msg("Failed to create payment order")
                 <=> /\ error.statusCode \notin {Whole(401), Whole(400)}
                     /\ ~NetworkUnreachable(error)
                     /\ ~Upstream5xx(error)

\* An upstream 500 that is also network-unreachable: answered 500, not 503.
C11_Witness ==
  /\ program = "index.js"
  /\ last # NoReq
  /\ last.route = "POST /api/create-razorpay-order"
  /\ last.gw = "rejected"
  /\ last.outcome.statusCode = Whole(500)
  /\ last.outcome.code = Str("ECONNREFUSED")
  /\ last.response.status = 500
  /\ last.response.body.error
       = Msg("Unable to connect to payment provider. Please try again later.")

\* The request ran into an error: its gateway call was rejected, or a
\* middleware refused it.
RaisedError(req) == "message" \in DOMAIN req.outcome

\* The response body carries the error's own message text.
CarriesRawMessage(response, error) ==
  /\ response.type = "json"
  /\ \E field \in {"error", "message"} \cap DOMAIN response.body :
       response.body[field] = error.message

\* C12, as claimed: outside development mode no response to a request that
\* ran into an error carries the error's raw message.
C12_NoRawMessageInProduction ==
  \A req \in Requests :
    (~Development /\ Completed(req) /\ RaisedError(req))
      => ~CarriesRawMessage(req.response, req.outcome)

VerifySessionRequests ==
  {req \in Requests : req.route = "GET /verify-session/:sessionId"}

\* C13: GET /verify-session/:sessionId answers 200 {success: true, session:
\* {id, payment_status, amount_total, metadata}} exactly when the retrieved
\* session's payment_status is 'paid'; for any other status it answers 200
\* {success: false, payment_status} with the status as retrieved; it answers
\* 500 exactly when the retrieval is rejected.
C13_VerifySessionReportsPaid ==
  \A req \in VerifySessionRequests :
    Completed(req)
      => LET session == req.outcome
             body == req.response.body
         IN /\ req.gw \in {"resolved", "rejected"}
            /\ req.response.status = 500 <=> req.gw = "rejected"
            /\ req.gw = "resolved"
                 => /\ req.response.status = 200
                    /\ body.success <=> session.payment_status = Str("paid")
                    /\ body.success
                         => body = [success |-> TRUE,
                                    session |-> [id |-> session.id,
                                                 payment_status |-> session.payment_status,
                                                 amount_total |-> session.amount_total,
                                                 metadata |-> session.metadata]]
                    /\ ~body.success
                         => body = [success |-> FALSE,
                                    payment_status |-> session.payment_status]

\* A status that is neither 'paid' nor 'unpaid' is reported as it is, as a
\* non-success.
C13_Witness ==
  /\ last # NoReq
  /\ last.route = "GET /verify-session/:sessionId"
  /\ last.gw = "resolved"
  /\ last.outcome.payment_status = Str("no_payment_required")
  /\ last.response = Json(200, [success |-> FALSE,
                                payment_status |-> Str("no_payment_required")])

\* The response is in one of the two forms the servers' own code sends: JSON,
\* or the plain text of a webhook signature failure.
JsonOrWebhookText(req) ==
  \/ req.response.type = "json"
  \/ /\ req.response.type = "text"
     /\ req.route = "POST /webhook"
     /\ req.input.signature # Str("valid")

\* C14, as claimed: every request, whatever its input and whatever its
\* gateway call settles with, is answered once, in JSON (in plain text for a
\* webhook signature failure); a request not yet answered is one that waits
\* for the gateway call it issued.
C14_EveryRequestAnsweredInJson ==
  \A req \in Requests :
    /\ Completed(req) => (req.response.status # 0 /\ JsonOrWebhookText(req))
    /\ ~Completed(req)
         => (req.calls = 1 /\ req.gw = "none" /\ req.response = NoResponse)

\* The gateway credentials a program needs.
Credentials(p) ==
  IF p = "part_000" THEN {"STRIPE_SECRET_KEY"}
  ELSE {"RAZORPAY_KEY_ID", "RAZORPAY_SECRET"}

\* C15, as claimed: in every program, a process started with a gateway
\* credential missing has exited once its start is over: it never listens
\* and never handles a request.
C15_MissingCredentialExits ==
  (proc # "booting" /\ ~(Credentials(program) \subseteq env))
    => /\ proc = "exited"
       /\ last = NoReq
       /\ inflight = EmptyBag

\* C16: a verification request that carries razorpay_order_id,
\* razorpay_payment_id, bookingData, spotId and userId is answered 200
\* {success: true, paymentId, orderId, bookingData}, built from the request's
\* own fields with bookingData as it was sent, whatever razorpay_signature
\* holds (valid, forged or absent), and without a gateway call.
C16_SuccessWithoutSignatureCheck ==
  \A req \in VerifyRequests :
    (/\ ~Missing(req.input.razorpay_order_id)
     /\ ~Missing(req.input.razorpay_payment_id)
     /\ ~Missing(req.input.bookingData)
     /\ ~Missing(req.input.spotId)
     /\ ~Missing(req.input.userId))
      => /\ Completed(req)
         /\ req.calls = 0
         /\ req.response = Json(200, [success |-> TRUE,
                                      paymentId |-> req.input.razorpay_payment_id,
                                      orderId |-> req.input.razorpay_order_id,
                                      bookingData |-> req.input.bookingData])

C16_Witness ==
  /\ program = "index.js"
  /\ last # NoReq
  /\ last.route = "POST /api/verify-razorpay-payment"
  /\ last.input.razorpay_signature = Str("forged")
  /\ last.input.bookingData = Obj("booking_2")
  /\ last.response.status = 200
  /\ last.response.body.success
  /\ last.response.body.bookingData = Obj("booking_2")

\* The request is the suspended request, as its settled call leaves it:
\* answered, and otherwise what it was.
AnswersAfterSettle(answered, suspended) ==
  /\ answered.gw \in {"resolved", "rejected"}
  /\ answered.outcome # NoOutcome
  /\ answered.response # NoResponse
  /\ answered = [suspended EXCEPT !.gw = answered.gw, !.outcome = answered.outcome,
                                  !.response = answered.response]

\* C17: a request whose handler has issued its gateway call has no response
\* while the call is unsettled; it stops waiting only in the step in which
\* its call settles (resolved or rejected), which is the step that answers
\* it; no other step, and so no timeout, answers or drops it. Every answered
\* request that issued a call was answered after the call settled.
C17_NoResponseBeforeSettle ==
  /\ [](\A req \in BagToSet(inflight) :
          req.calls = 1 /\ req.gw = "none" /\ req.response = NoResponse)
  /\ []((last # NoReq /\ last.calls > 0)
          => (last.gw \in {"resolved", "rejected"} /\ last.response # NoResponse))
  /\ [][\A req \in BagToSet(inflight) :
          CopiesIn(req, inflight') < CopiesIn(req, inflight)
            => /\ CopiesIn(req, inflight') = CopiesIn(req, inflight) - 1
               /\ AnswersAfterSettle(last', req)]_vars

\* A request answered after its call was rejected, while another still waits.
C17_Witness ==
  /\ last # NoReq
  /\ last.route = "GET /verify-session/:sessionId"
  /\ last.calls = 1
  /\ last.gw = "rejected"
  /\ last.response.status = 500
  /\ BagCardinality(inflight) > 0

\* The two requests have the same input of their own and the same gateway
\* result.
SameInputAndResult(r1, r2) ==
  /\ r1.route = r2.route
  /\ r1.input = r2.input
  /\ r1.payload = r2.payload
  /\ r1.gw = r2.gw
  /\ r1.outcome = r2.outcome

\* The requests whose number of suspended copies the step changes.
Touched ==
  {req \in BagToSet(inflight) \cup BagToSet(inflight') :
     CopiesIn(req, inflight') # CopiesIn(req, inflight)}

=============================================================================
